---- MODULE Spec2Model ----
(***************************************************************************)
(* Model of install.py: the container installer.  One run of the script is *)
(* a sequential process over a shared filesystem: bind-path check, prefix  *)
(* provisioning (smart_mkdir), container check and pull, module file,      *)
(* launchers.  Strings are modelled as sequences of tokens so that the     *)
(* '{}/{}'.format(...) path arithmetic of the script is computed, not      *)
(* assumed.                                                                *)
(***************************************************************************)
EXTENDS Integers, Sequences, FiniteSets, TLC

VARIABLES fs, fs0, cfg, pc, idx, err, at, saw, exit, log

vars == <<fs, fs0, cfg, pc, idx, err, at, saw, exit, log>>

(* ---------------------------- bounds ----------------------------------- *)

\* Largest number of -b/--bind-path options given to one run.
MaxBind == 2

\* Number of installer processes that may run against the same prefix.
NRuns == 2

Runs == 1..NRuns

(* ------------------------- program constants --------------------------- *)

DEFAULT_IMG == "ladlib"

DEFAULT_VERSION == "main"

SHORTCUTS == << "lad-shell" >>

\* args.prefix after os.path.abspath: one absolute path token.
PREFIX == << "/tmp/install" >>

\* The module root a run may be given with -m; <<>> stands for None.
MODULE_ROOT == << "/opt/modules" >>

\* Host paths a run may name with -b: one that exists, one that does not.
HOST_DATA == << "/data" >>

HOST_MISSING == << "/missing" >>

(* ------------------------- string formatting --------------------------- *)

\* '{}/{}'.format(a, b)
Slash(a, b) == a \o << "/" >> \o b

\* DOCKER_REF.format(img=img, tag=tag)
DOCKER_REF(img, tag) == << "docker://apanta123/", img, ":", tag >>

\* BIND_DIRECTIVE.format(path): '-B {0}:{0}'
BIND_DIRECTIVE(path) == << "-B " >> \o path \o << ":" >> \o path

\* ' '.join(parts)
RECURSIVE JoinSpace(_)
JoinSpace(parts) ==
    IF Len(parts) = 0 THEN << >>
    ELSE IF Len(parts) = 1 THEN parts[1]
    ELSE parts[1] \o << " " >> \o JoinSpace(Tail(parts))

\* The bind_directive string of a run: '' without bind paths.
bind_directive(paths) ==
    JoinSpace([i \in 1..Len(paths) |-> BIND_DIRECTIVE(paths[i])])

bindir == Slash(PREFIX, << "bin" >>)

libdir == Slash(PREFIX, << "lib" >>)

libexecdir == Slash(PREFIX, << "libexec" >>)

\* container = '{}/{}-{}.sif'.format(libdir, img, version_docker)
ContainerPath(img, version) == Slash(libdir, << img, "-", version, ".sif" >>)

container == ContainerPath(DEFAULT_IMG, DEFAULT_VERSION)

\* moduledir = '{}/{}'.format(args.module_path, args.container)
ModuleDir(module_path, img) == Slash(module_path, << img >>)

\* fname = '{}/{}'.format(moduledir, version)
ModuleFileName(moduledir, version) == Slash(moduledir, << version >>)

\* launcher_path = '{}/{}'.format(bindir, app)
LauncherPath(dir, app) == Slash(dir, << app >>)

(* ----------------------------- filesystem ------------------------------ *)

NoContent == [type |-> "none", f1 |-> << >>, f2 |-> << >>, f3 |-> << >>]

Absent == [kind |-> "absent", w |-> FALSE, x |-> FALSE, owner |-> "me",
           content |-> NoContent]

DirNode(writable) == [kind |-> "dir", w |-> writable, x |-> TRUE,
                      owner |-> "me", content |-> NoContent]

FileNode(owner, content) == [kind |-> "file", w |-> TRUE, x |-> FALSE,
                             owner |-> owner, content |-> content]

StaleContent == [type |-> "stale", f1 |-> << >>, f2 |-> << >>, f3 |-> << >>]

EmptyContent == [type |-> "empty", f1 |-> << >>, f2 |-> << >>, f3 |-> << >>]

\* What a completed pull leaves at the destination: the image of the reference.
SifContent(ref) == [type |-> "sif", f1 |-> ref, f2 |-> << >>, f3 |-> << >>]

\* _LAUNCHER.format(container=..., bind=..., exe=...)
LAUNCHER(cont, bind, exe) ==
    [type |-> "launcher", f1 |-> cont, f2 |-> bind, f3 |-> << exe >>]

\* _MODULEFILE.format(name=..., version=..., bindir=...)
MODULEFILE(name, version, bdir) ==
    [type |-> "module", f1 |-> << name >>, f2 |-> << version >>, f3 |-> bdir]

moduledir0 == ModuleDir(MODULE_ROOT, DEFAULT_IMG)

modulefile0 == ModuleFileName(moduledir0, DEFAULT_VERSION)

LauncherPaths == { LauncherPath(bindir, SHORTCUTS[i]) : i \in DOMAIN SHORTCUTS }

DirPaths == { bindir, libdir, libexecdir, moduledir0 }

AllPaths == DirPaths \cup LauncherPaths
            \cup { container, modulefile0, HOST_DATA, HOST_MISSING }

\* The directory part of a path: everything before its last "/".
RECURSIVE Parent(_)
Parent(p) ==
    IF Len(p) = 0 THEN << >>
    ELSE IF p[Len(p)] = "/" THEN SubSeq(p, 1, Len(p) - 1)
    ELSE Parent(SubSeq(p, 1, Len(p) - 1))

\* os.path.exists(path)
exists(f, path) == path \in DOMAIN f /\ f[path].kind # "absent"

\* os.access(path, os.W_OK)
access_W(f, path) == exists(f, path) /\ f[path].w

\* Whether open(path, 'w') succeeds: the parent is a directory; a new file
\* needs write permission on it, an existing one on itself, and a directory
\* cannot be opened for writing.
can_open_w(f, path) ==
    /\ path \in DOMAIN f
    /\ Parent(path) \in DOMAIN f
    /\ f[Parent(path)].kind = "dir"
    /\ IF f[path].kind = "absent" THEN f[Parent(path)].w
       ELSE f[path].kind = "file" /\ f[path].w

\* The file left by open(path, 'w') + write(content): created for the caller,
\* or truncated in place keeping its owner and mode.
written(f, path, content) ==
    IF f[path].kind = "absent" THEN FileNode("me", content)
    ELSE [f[path] EXCEPT !.content = content]

(* ------------------------------- runs ---------------------------------- *)

\* Variant: the -m option is never honoured.
deploy_local_always(r) == TRUE

\* deploy_local = not args.module_path
deploy_local(r) == cfg[r].module_path = << >>

\* dirs = [bindir, libdir, libexecdir] (+ moduledir unless deploy_local)
dirs(r) ==
    IF deploy_local(r) THEN << bindir, libdir, libexecdir >>
    ELSE << bindir, libdir, libexecdir,
            ModuleDir(cfg[r].module_path, cfg[r].container) >>

Op(op, path) == [op |-> op, path |-> path]

Logged(r, op) == { log[r][i].path : i \in { j \in DOMAIN log[r] : log[r][j].op = op } }

Count(r, op) == Cardinality({ j \in DOMAIN log[r] : log[r][j].op = op })

Fail(r, e) ==
    /\ pc' = [pc EXCEPT ![r] = "failed"]
    /\ at' = [at EXCEPT ![r] = pc[r]]
    /\ err' = [err EXCEPT ![r] = e]

(* ----------------------------- the steps -------------------------------- *)

\* Variant: the loop over the bind paths without its existence check.
CheckBindPath_unchecked(r) ==
    /\ pc[r] = "bind"
    /\ IF Len(cfg[r].bind_paths) = 0 \/ idx[r] = Len(cfg[r].bind_paths)
       THEN /\ pc' = [pc EXCEPT ![r] = "mkdir"]
            /\ idx' = [idx EXCEPT ![r] = 1]
       ELSE /\ idx' = [idx EXCEPT ![r] = idx[r] + 1]
            /\ UNCHANGED pc
    /\ UNCHANGED <<fs, fs0, cfg, err, at, saw, exit, log>>

\* The loop over args.bind_paths: one path per step; a missing path raises
\* InvalidArgumentError.  Without bind paths the block is skipped.
CheckBindPath(r) ==
    /\ pc[r] = "bind"
    /\ IF Len(cfg[r].bind_paths) = 0
       THEN /\ pc' = [pc EXCEPT ![r] = "mkdir"]
            /\ UNCHANGED <<idx, err, at>>
       ELSE IF ~exists(fs, cfg[r].bind_paths[idx[r]])
       THEN /\ Fail(r, "InvalidArgumentError")
            /\ UNCHANGED idx
       ELSE IF idx[r] = Len(cfg[r].bind_paths)
       THEN /\ pc' = [pc EXCEPT ![r] = "mkdir"]
            /\ idx' = [idx EXCEPT ![r] = 1]
            /\ UNCHANGED <<err, at>>
       ELSE /\ idx' = [idx EXCEPT ![r] = idx[r] + 1]
            /\ UNCHANGED <<pc, err, at>>
    /\ UNCHANGED <<fs, fs0, cfg, saw, exit, log>>

\* After smart_mkdir(dirs[idx]) returned: the next directory, or the
\* container check once the list is done.
NextDir(r) ==
    IF idx[r] = Len(dirs(r))
    THEN /\ pc' = [pc EXCEPT ![r] = "check"]
         /\ idx' = [idx EXCEPT ![r] = 1]
    ELSE /\ idx' = [idx EXCEPT ![r] = idx[r] + 1]
         /\ UNCHANGED pc

\* Variant: mkdir -p without the write check.
smart_mkdir_nocheck(r, dir) ==
    IF ~exists(fs, dir)
    THEN \/ /\ Fail(r, "OSError")
            /\ UNCHANGED <<fs, idx, log>>
         \/ /\ fs' = [fs EXCEPT ![dir] = DirNode(TRUE)]
            /\ log' = [log EXCEPT ![r] = Append(log[r], Op("mkdir", dir))]
            /\ NextDir(r)
            /\ UNCHANGED <<err, at>>
    ELSE /\ NextDir(r)
         /\ UNCHANGED <<fs, err, at, log>>

\* smart_mkdir(dir): os.makedirs when the path does not exist (its exception
\* is re-raised as it is), then the write check on whatever is at the path.
smart_mkdir(r, dir) ==
    IF ~exists(fs, dir)
    THEN \/ /\ Fail(r, "OSError")
            /\ UNCHANGED <<fs, idx, log>>
         \/ /\ fs' = [fs EXCEPT ![dir] = DirNode(TRUE)]
            /\ log' = [log EXCEPT ![r] = Append(log[r], Op("mkdir", dir))]
            /\ NextDir(r)
            /\ UNCHANGED <<err, at>>
    ELSE IF ~access_W(fs, dir)
    THEN /\ Fail(r, "InvalidArgumentError")
         /\ UNCHANGED <<fs, idx, log>>
    ELSE /\ NextDir(r)
         /\ UNCHANGED <<fs, err, at, log>>

\* for dir in dirs: smart_mkdir(dir)
MkDir(r) ==
    /\ pc[r] = "mkdir"
    /\ smart_mkdir(r, dirs(r)[idx[r]])
    /\ UNCHANGED <<fs0, cfg, saw, exit>>

\* Variant: the download is never skipped.
ShouldPull_always(r, cont) == TRUE

\* Variant: -f is not looked at.
ShouldPull_noforce(r, cont) == ~exists(fs, cont)

\* Variant: a run holds back while another run's pull is in flight.
ShouldPull_locked(r, cont) ==
    /\ ~exists(fs, cont) \/ cfg[r].force
    /\ \A q \in Runs \ {r} : pc[q] # "pulling"

\* if not os.path.exists(container) or args.force
ShouldPull(r, cont) == ~exists(fs, cont) \/ cfg[r].force

\* The container check; when it decides to download, os.system(cmd) starts
\* the pull subprocess and the run blocks on it.
CheckContainer(r) ==
    /\ pc[r] = "check"
    /\ saw' = [saw EXCEPT ![r] =
                 IF exists(fs, ContainerPath(cfg[r].container, cfg[r].version))
                 THEN "present" ELSE "absent"]
    /\ IF ShouldPull(r, ContainerPath(cfg[r].container, cfg[r].version))
       THEN /\ pc' = [pc EXCEPT ![r] = "pulling"]
            /\ log' = [log EXCEPT ![r] = Append(log[r],
                         Op("pull", ContainerPath(cfg[r].container, cfg[r].version)))]
       ELSE /\ pc' = [pc EXCEPT ![r] = "module"]
            /\ UNCHANGED log
    /\ UNCHANGED <<fs, fs0, cfg, idx, err, at, exit>>

\* Variant: the exit status of the pull is not looked at.
AfterPull_ignored(r, status) ==
    /\ pc' = [pc EXCEPT ![r] = "module"]
    /\ UNCHANGED <<err, at>>

\* err = os.system(cmd); if err: raise ContainerDownloadError()
AfterPull(r, status) ==
    IF status # 0
    THEN Fail(r, "ContainerDownloadError")
    ELSE /\ pc' = [pc EXCEPT ![r] = "module"]
         /\ UNCHANGED <<err, at>>

\* The pull subprocess ends.  What it did is the runtime's business: it
\* exits 0 having written the image (only possible into a directory), exits
\* 0 having written nothing, or exits non-zero.
PullReturn(r) ==
    /\ pc[r] = "pulling"
    /\ \E status \in {0, 1}, wrote \in BOOLEAN :
         /\ wrote => (status = 0 /\ fs[libdir].kind = "dir")
         /\ exit' = [exit EXCEPT ![r] = status]
         /\ fs' = IF wrote
                  THEN [fs EXCEPT ![ContainerPath(cfg[r].container, cfg[r].version)] =
                          FileNode("me", SifContent(
                              DOCKER_REF(cfg[r].container, cfg[r].version)))]
                  ELSE fs
         /\ AfterPull(r, status)
    /\ UNCHANGED <<fs0, cfg, idx, saw, log>>

\* make_modulefile(project, version, moduledir, bindir): open(fname, 'w')
\* and write; an exception of open propagates.
make_modulefile(r, project, version, mdir, bdir) ==
    IF ~can_open_w(fs, ModuleFileName(mdir, version))
    THEN /\ Fail(r, "OSError")
         /\ UNCHANGED <<fs, log>>
    ELSE /\ fs' = [fs EXCEPT ![ModuleFileName(mdir, version)] =
                     written(fs, ModuleFileName(mdir, version),
                             MODULEFILE(project, version, bdir))]
         /\ log' = [log EXCEPT ![r] =
                      Append(log[r], Op("modulefile", ModuleFileName(mdir, version)))]
         /\ pc' = [pc EXCEPT ![r] = "launcher"]
         /\ UNCHANGED <<err, at>>

\* if not deploy_local: make_modulefile(...)
ModuleFile(r) ==
    /\ pc[r] = "module"
    /\ IF deploy_local(r)
       THEN /\ pc' = [pc EXCEPT ![r] = "launcher"]
            /\ UNCHANGED <<fs, err, at, log>>
       ELSE make_modulefile(r, cfg[r].container, cfg[r].version,
                            ModuleDir(cfg[r].module_path, cfg[r].container), bindir)
    /\ UNCHANGED <<fs0, cfg, idx, saw, exit>>

\* The launcher make_launcher renders for shortcut prog of run r.
Rendered(r, prog) ==
    LAUNCHER(ContainerPath(cfg[r].container, cfg[r].version),
             bind_directive(cfg[r].bind_paths), prog)

\* make_launcher up to the write of _write_script: open(path, 'w') and
\* file.write(content).
WriteLauncher(r) ==
    /\ pc[r] = "launcher"
    /\ IF ~can_open_w(fs, LauncherPath(bindir, SHORTCUTS[idx[r]]))
       THEN /\ Fail(r, "OSError")
            /\ UNCHANGED <<fs, log>>
       ELSE /\ fs' = [fs EXCEPT ![LauncherPath(bindir, SHORTCUTS[idx[r]])] =
                        written(fs, LauncherPath(bindir, SHORTCUTS[idx[r]]),
                                Rendered(r, SHORTCUTS[idx[r]]))]
            /\ log' = [log EXCEPT ![r] = Append(log[r],
                         Op("launcher", LauncherPath(bindir, SHORTCUTS[idx[r]])))]
            /\ pc' = [pc EXCEPT ![r] = "chmod"]
            /\ UNCHANGED <<err, at>>
    /\ UNCHANGED <<fs0, cfg, idx, saw, exit>>

\* chmod +x path, as the shell runs it: only the owner of a file may change
\* its mode.
chmod_x(f, path) ==
    IF exists(f, path) /\ f[path].owner = "me"
    THEN [f EXCEPT ![path].x = TRUE]
    ELSE f

\* os.system('chmod +x {}'.format(path)): the status is not looked at.  Then
\* the next shortcut, or the end of the script.
ChmodLauncher(r) ==
    /\ pc[r] = "chmod"
    /\ fs' = chmod_x(fs, LauncherPath(bindir, SHORTCUTS[idx[r]]))
    /\ IF idx[r] = Len(SHORTCUTS)
       THEN /\ pc' = [pc EXCEPT ![r] = "done"]
            /\ UNCHANGED idx
       ELSE /\ pc' = [pc EXCEPT ![r] = "launcher"]
            /\ idx' = [idx EXCEPT ![r] = idx[r] + 1]
    /\ UNCHANGED <<fs0, cfg, err, at, saw, exit, log>>

Step(r) ==
    \/ CheckBindPath(r)
    \/ MkDir(r)
    \/ CheckContainer(r)
    \/ PullReturn(r)
    \/ ModuleFile(r)
    \/ WriteLauncher(r)
    \/ ChmodLauncher(r)

Next == \E r \in Runs : Step(r)

(* ---------------------------- initial states --------------------------- *)

RECURSIVE SeqsUpTo(_, _)
SeqsUpTo(S, n) ==
    IF n = 0 THEN { << >> }
    ELSE SeqsUpTo(S, n - 1)
         \cup { Append(s, e) : s \in { t \in SeqsUpTo(S, n - 1) : Len(t) = n - 1 }, e \in S }

\* The parsed command line of one run.
Configs ==
    [ container : { DEFAULT_IMG },
      version : { DEFAULT_VERSION },
      force : BOOLEAN,
      bind_paths : SeqsUpTo({ HOST_DATA, HOST_MISSING }, MaxBind),
      module_path : { << >>, MODULE_ROOT } ]

\* What may be at a path the script wants as a directory.
DirStates == { Absent, DirNode(TRUE), DirNode(FALSE), FileNode("me", StaleContent) }

\* What may be at the container path: nothing, an empty file, an image.
ArtifactStates ==
    { Absent, FileNode("me", EmptyContent),
      FileNode("me", SifContent(DOCKER_REF(DEFAULT_IMG, DEFAULT_VERSION))) }

\* What may be at a launcher path: nothing, or an older launcher that is
\* writable and owned by this user or by another one.
LauncherStates ==
    { Absent, FileNode("me", StaleContent), FileNode("other", StaleContent) }

\* A filesystem: a file exists only inside a directory.
HostFS(b, l, x, m, a, s) ==
    [ p \in AllPaths |->
        IF p = bindir THEN b
        ELSE IF p = libdir THEN l
        ELSE IF p = libexecdir THEN x
        ELSE IF p = moduledir0 THEN m
        ELSE IF p = container THEN a
        ELSE IF p \in LauncherPaths THEN s
        ELSE IF p = HOST_DATA THEN DirNode(TRUE)
        ELSE Absent ]

InitRun(active) ==
    /\ pc = [r \in Runs |-> IF r \in active THEN "bind" ELSE "idle"]
    /\ idx = [r \in Runs |-> 1]
    /\ err = [r \in Runs |-> "none"]
    /\ at = [r \in Runs |-> "none"]
    /\ saw = [r \in Runs |-> "unchecked"]
    /\ exit = [r \in Runs |-> -1]
    /\ log = [r \in Runs |-> << >>]

IdleConfig ==
    [ container |-> DEFAULT_IMG, version |-> DEFAULT_VERSION, force |-> FALSE,
      bind_paths |-> << >>, module_path |-> << >> ]

\* One run of the script, on any host filesystem and any command line.
Init ==
    /\ \E b \in DirStates, l \in DirStates, x \in DirStates, m \in DirStates,
          a \in ArtifactStates, s \in LauncherStates :
         /\ a.kind # "absent" => l.kind = "dir"
         /\ s.kind # "absent" => b.kind = "dir"
         /\ fs = HostFS(b, l, x, m, a, s)
    /\ fs0 = fs
    /\ \E c \in Configs : cfg = [r \in Runs |-> IF r = 1 THEN c ELSE IdleConfig]
    /\ InitRun({1})

Spec == Init /\ [][Next]_vars

\* All runs started at once against the same prefix, image and version, with
\* or without -f: a prefix that is fresh or already provisioned, with or
\* without the image.
InitConc ==
    /\ \E d \in { Absent, DirNode(TRUE) }, a \in ArtifactStates :
         /\ a.kind # "absent" => d.kind = "dir"
         /\ fs = HostFS(d, d, d, d, a, Absent)
    /\ fs0 = fs
    /\ cfg \in [Runs -> { c \in Configs : c.bind_paths = << >> /\ c.module_path = << >> }]
    /\ InitRun(Runs)

SpecConc == InitConc /\ [][Next]_vars

(* ------------------------------ properties ----------------------------- *)

Started(r) == pc[r] # "idle"

Pulls(r) == Count(r, "pull")

\* The run wrote no launcher and no module file.
NoFilesWritten(r) == Logged(r, "launcher") = {} /\ Logged(r, "modulefile") = {}

\* Some bind path given to run r is not on the host.
SomeBindMissing(r) ==
    \E i \in DOMAIN cfg[r].bind_paths : fs0[cfg[r].bind_paths[i]].kind = "absent"

\* C1: a run given a bind path that does not exist never gets past the
\* bind-path check; it can only end failed with InvalidArgumentError, and it
\* has created no directory, invoked no pull and written no file: the
\* filesystem is as it was before the run.
C1_MissingBindPathFailsFirst ==
    \A r \in Runs : (Started(r) /\ SomeBindMissing(r)) =>
        /\ pc[r] \in { "bind", "failed" }
        /\ pc[r] = "failed" => (err[r] = "InvalidArgumentError" /\ at[r] = "bind")
        /\ log[r] = << >>
        /\ fs = fs0

\* A run failed on its second bind path, the first one being on the host.
C1_Witness ==
    \E r \in Runs : /\ pc[r] = "failed" /\ at[r] = "bind"
                    /\ SomeBindMissing(r) /\ idx[r] = 2

\* C2: a run without -f whose container check found the artifact never
\* invokes the pull; it goes on to the module file and the launchers.
C2_NoPullWhenPresent ==
    \A r \in Runs : (saw[r] = "present" /\ ~cfg[r].force) =>
        /\ Pulls(r) = 0
        /\ exit[r] = -1
        /\ pc[r] \in { "module", "launcher", "chmod", "done", "failed" }
        /\ pc[r] = "failed" => at[r] \in { "module", "launcher" }

\* A run without -f found the artifact and ended successfully.
C2_Witness ==
    \E r \in Runs : saw[r] = "present" /\ ~cfg[r].force /\ pc[r] = "done"

\* C3 as stated: every finished run with -f has invoked the pull.
C3_ForceAlwaysPulls ==
    \A r \in Runs : (cfg[r].force /\ pc[r] \in { "done", "failed" }) => Pulls(r) >= 1

\* C3, amended: a run with -f that reaches the container check invokes the
\* pull exactly once, whether or not the artifact was there; a run with -f
\* that ends without a pull failed in the bind-path check or in the
\* provisioning of the directories.
C3_ForcePullsOnceChecked ==
    \A r \in Runs : cfg[r].force =>
        /\ saw[r] # "unchecked" => Pulls(r) = 1
        /\ pc[r] \in { "module", "launcher", "chmod", "done" } => Pulls(r) = 1
        /\ (pc[r] = "failed" /\ Pulls(r) = 0) => at[r] \in { "bind", "mkdir" }

\* A run with -f found the artifact present, pulled all the same and ended
\* successfully.
C3_Witness ==
    \E r \in Runs : /\ cfg[r].force /\ saw[r] = "present"
                    /\ Pulls(r) = 1 /\ pc[r] = "done"

\* C4: at the successful end of a run, prefix/bin, prefix/lib and
\* prefix/libexec are directories and are writable.
C4_PrefixDirsExistWritable ==
    \A r \in Runs : pc[r] = "done" =>
        \A d \in { bindir, libdir, libexecdir } : fs[d].kind = "dir" /\ fs[d].w

\* C5: a pull that exits non-zero ends the run with ContainerDownloadError;
\* that run writes no module file and no launcher, and no run invokes the
\* pull more than once.
C5_PullFailureIsFatal ==
    \A r \in Runs :
        /\ Pulls(r) <= 1
        /\ exit[r] > 0 =>
             /\ pc[r] = "failed"
             /\ err[r] = "ContainerDownloadError"
             /\ at[r] = "pulling"
             /\ Pulls(r) = 1
             /\ NoFilesWritten(r)

\* The pull of a run that was given a module path exited non-zero.
C5_Witness ==
    \E r \in Runs : exit[r] > 0 /\ cfg[r].module_path # << >> /\ pc[r] = "failed"

\* C6: no run is at launcher generation or at its successful end while the
\* artifact file is absent or empty.
C6_ArtifactPresentAfterProvisioner ==
    \A r \in Runs : pc[r] \in { "launcher", "chmod", "done" } =>
        /\ fs[container].kind = "file"
        /\ fs[container].content.type = "sif"

\* The directory on which smart_mkdir failed in run r.
FailedDir(r) == dirs(r)[idx[r]]

\* C7 as stated: every failure in the provisioning of a directory is an
\* InvalidArgumentError, with no pull invoked and no file written.
C7_MkdirFailsInvalidArgument ==
    \A r \in Runs : at[r] = "mkdir" =>
        /\ err[r] = "InvalidArgumentError"
        /\ Pulls(r) = 0
        /\ NoFilesWritten(r)

\* C7, amended: a required directory that is missing and cannot be created
\* fails the run with the error of the creation itself (an OSError); one
\* that exists but is not writable fails it with InvalidArgumentError, and
\* no run gets past the provisioning with such a directory.  Either way no
\* pull is invoked and no launcher or module file is written.
C7_MkdirFailureKinds ==
    \A r \in Runs :
        /\ at[r] = "mkdir" =>
             /\ \/ err[r] = "OSError" /\ fs[FailedDir(r)].kind = "absent"
                \/ /\ err[r] = "InvalidArgumentError"
                   /\ fs[FailedDir(r)].kind # "absent" /\ ~fs[FailedDir(r)].w
             /\ Pulls(r) = 0
             /\ NoFilesWritten(r)
        /\ (Started(r) /\ \E i \in DOMAIN dirs(r) :
                fs0[dirs(r)[i]].kind # "absent" /\ ~fs0[dirs(r)[i]].w) =>
             /\ pc[r] \in { "bind", "mkdir", "failed" }
             /\ pc[r] = "failed" => at[r] \in { "bind", "mkdir" }
             /\ Pulls(r) = 0
             /\ NoFilesWritten(r)

\* The creation of the module directory failed after bin, lib and libexec
\* had been created.
C7_Witness ==
    \E r \in Runs : /\ at[r] = "mkdir" /\ err[r] = "OSError"
                    /\ idx[r] = 4 /\ Len(log[r]) = 3

\* C8: at the successful end of a run, every shortcut's launcher exists in
\* bindir, holds the rendered launcher and is executable.
C8_LaunchersExecutable ==
    \A r \in Runs : pc[r] = "done" =>
        \A i \in DOMAIN SHORTCUTS :
            /\ fs[LauncherPath(bindir, SHORTCUTS[i])].kind = "file"
            /\ fs[LauncherPath(bindir, SHORTCUTS[i])].content = Rendered(r, SHORTCUTS[i])
            /\ fs[LauncherPath(bindir, SHORTCUTS[i])].x

\* C9: a successful run that was given a module path has written exactly
\* one module file, at modulePath/containerImage/version, holding the
\* rendered module file; one that was given none has written no module file
\* and created no module directory.
C9_OneModuleFileIffModulePath ==
    \A r \in Runs : pc[r] = "done" =>
        IF cfg[r].module_path # << >>
        THEN /\ Count(r, "modulefile") = 1
             /\ Logged(r, "modulefile") =
                  { cfg[r].module_path \o << "/", cfg[r].container, "/", cfg[r].version >> }
             /\ fs[cfg[r].module_path \o << "/", cfg[r].container, "/", cfg[r].version >>].content
                  = MODULEFILE(cfg[r].container, cfg[r].version, PREFIX \o << "/", "bin" >>)
        ELSE /\ Count(r, "modulefile") = 0
             /\ Logged(r, "mkdir") \subseteq { bindir, libdir, libexecdir }
             /\ fs[moduledir0] = fs0[moduledir0]
             /\ fs[modulefile0] = fs0[modulefile0]

\* A run given a module path ended successfully, having created the module
\* directory itself.
C9_Witness ==
    \E r \in Runs : /\ pc[r] = "done" /\ cfg[r].module_path # << >>
                    /\ moduledir0 \in Logged(r, "mkdir")

\* C10: concurrent runs are not coordinated: whether a run pulls depends
\* only on its own -f and on what it sees at the container path, never on
\* another run's pull being in flight, and the check itself raises nothing;
\* a run blocked on its pull fails exactly when its own pull exits non-zero.
C10_RunsNotCoordinated ==
    [][ \A r \in Runs :
          /\ (pc[r] = "check" /\ pc'[r] # "check") =>
                /\ pc'[r] = "pulling" <=> (cfg[r].force \/ fs[container].kind = "absent")
                /\ pc'[r] # "pulling" => pc'[r] = "module"
                /\ err'[r] = "none"
          /\ (pc[r] = "pulling" /\ pc'[r] # "pulling") =>
                /\ pc'[r] = "failed" <=> exit'[r] # 0
                /\ pc'[r] # "failed" => pc'[r] = "module" ]_vars

\* Two runs without -f both saw the artifact absent and both have a pull to
\* the same destination in flight.
C10_Witness ==
    \E r \in Runs, q \in Runs :
        /\ r # q
        /\ ~cfg[r].force /\ ~cfg[q].force
        /\ saw[r] = "absent" /\ saw[q] = "absent"
        /\ pc[r] = "pulling" /\ pc[q] = "pulling"
        /\ Logged(r, "pull") = { container } /\ Logged(q, "pull") = { container }

====
